---- MODULE Spec2Model ----
(***************************************************************************)
(* Attestation key resolution of keystore2                                 *)
(* (keystore2/src/attestation_key_utils.rs).                               *)
(*                                                                         *)
(* get_attest_key_info routes a key-creation request to the user           *)
(* generated key loader, to one of the two remote provisioning             *)
(* collaborators, or to "no attestation key".  The collaborators (storage, *)
(* permission check, remote provisioning, certificate parser, system       *)
(* property read) answer nondeterministically; the record lock table       *)
(* (KEY_ID_LOCK) and the system property are the state that outlives a     *)
(* call.                                                                   *)
(***************************************************************************)
EXTENDS Integers, Sequences, FiniteSets, TLC

VARIABLES
    enable_rkpd,   \* persist.device_config.remote_key_provisioning_native.enable_rkpd
    locked_keys,   \* key ids whose KeyIdGuard is alive
    call,          \* the arguments of the call in progress, or NoCall
    last,          \* arguments, result and collaborator log of the last call
    prev_rkp       \* the remote collaborator invoked by the call before `last`

vars == <<enable_rkpd, locked_keys, call, last, prev_rkp>>

----------------------------------------------------------------------------
(* Bounds *)

MaxParams == 2
MaxKeyId == 1

----------------------------------------------------------------------------
(* Value domains *)

KeyIds == 1..MaxKeyId

Domain == {"APP", "KEY_ID", "BLOB"}

Tag == {"ATTESTATION_CHALLENGE", "DEVICE_UNIQUE_ATTESTATION", "ALGORITHM"}

Uids == {0, 10001}

PropertyValues == {"true", "false", "unset", "garbage"}

KeyDescriptor == [domain : Domain, nspace : KeyIds]

None == [is_some |-> FALSE]

Some(v) == [is_some |-> TRUE, v |-> v]

OptionalKeyDescriptor == {None} \cup {Some(d) : d \in KeyDescriptor}

ParamSeqs == UNION {[1..n -> Tag] : n \in 0..MaxParams}

\* (blob, metadata) pairs a key entry can hold
KmBlobs == {<<<<17>>, "plain">>, <<<<34, 35>>, "super_encrypted">>}

\* certificates a key entry can hold: a SEQUENCE tag followed by the subject,
\* or bytes that are not a certificate
Certs == {<<48, 7>>, <<48, 8, 9>>, <<7, 48>>}

KeyEntry == [km_blob : {None} \cup {Some(b) : b \in KmBlobs},
             cert : {None} \cup {Some(c) : c \in Certs}]

\* what storage holds for the descriptor, and what the permission check answers
KeystoreDB == [row : {None} \cup {Some(e) : e \in KeyEntry}, granted : BOOLEAN]

\* what remote provisioning answers
RemProvState ==
    {[kind |-> "err"], [kind |-> "none"]}
    \cup [kind : {"some"}, key_id : KeyIds,
          material : {[attestation_key |-> "ak1", attestation_certs |-> "chain1"],
                      [attestation_key |-> "ak2", attestation_certs |-> "chain2"]}]

----------------------------------------------------------------------------
(* Result<T> with the anyhow context chain, the collaborators called, the   *)
(* record locks acquired during the call and those still held at return.   *)

NoVal == [variant |-> "NoVal"]

NoErr == [kind |-> "None", code |-> "None"]

Ok(v, log, acquired, locked) ==
    [ok |-> TRUE, val |-> v, err |-> NoErr, ctx |-> <<>>,
     log |-> log, acquired |-> acquired, locked |-> locked]

Err(e, log, acquired) ==
    [ok |-> FALSE, val |-> NoVal, err |-> e, ctx |-> <<>>,
     log |-> log, acquired |-> acquired, locked |-> {}]

Context(r, msg) ==
    IF r.ok THEN r ELSE [r EXCEPT !.ctx = <<msg>> \o @]

----------------------------------------------------------------------------
(* Collaborators, at their interface.  Each call is logged with its        *)
(* argument, whether it succeeded and what it returned.                    *)

Called(fn, arg, ok, ret) == [fn |-> fn, arg |-> arg, ok |-> ok, ret |-> ret]

\* rustutils::system_properties::read_bool: the default when the property is
\* not set, an error when its value is no boolean.
read_bool(value, default_value) ==
    CASE value = "true" -> [ok |-> TRUE, val |-> TRUE]
      [] value = "false" -> [ok |-> TRUE, val |-> FALSE]
      [] value = "unset" -> [ok |-> TRUE, val |-> default_value]
      [] OTHER -> [ok |-> FALSE, val |-> FALSE]

\* utils::check_key_permission(KeyPerm::Use, ..), as storage calls it during
\* the load
check_key_permission(db) == db.granted

\* KeystoreDB::load_key_entry: looks the record up, runs the permission check
\* and takes the record lock in one step; an error leaves no lock behind.
load_key_entry(db, key, caller_uid) ==
    IF ~db.row.is_some
    THEN Err([kind |-> "Rc", code |-> "KEY_NOT_FOUND"],
             <<Called("load_key_entry", Some(key), FALSE, NoVal)>>, {})
    ELSE IF ~check_key_permission(db)
    THEN Err([kind |-> "Rc", code |-> "PERMISSION_DENIED"],
             <<Called("load_key_entry", Some(key), FALSE, NoVal),
               Called("check_key_permission", Some(key), FALSE, NoVal)>>, {})
    ELSE LET loaded == [key_id_guard |-> key.nspace, key_entry |-> db.row.v]
         IN  Ok(loaded,
                <<Called("load_key_entry", Some(key), TRUE, loaded),
                  Called("check_key_permission", Some(key), TRUE, NoVal)>>,
                {key.nspace}, {key.nspace})

\* KeyEntry::take_key_blob_info
take_key_blob_info(key_entry) == key_entry.km_blob

\* KeyEntry::take_cert
take_cert(key_entry) == key_entry.cert

\* keystore2_crypto::parse_subject_from_certificate: the subject that follows
\* the SEQUENCE tag, an error for bytes that are no certificate.
parse_subject_from_certificate(cert) ==
    IF Len(cert) >= 2 /\ cert[1] = 48
    THEN Ok(Tail(cert),
            <<Called("parse_subject_from_certificate", Some(cert), TRUE, Some(Tail(cert)))>>,
            {}, {})
    ELSE Err([kind |-> "Crypto", code |-> "ExtractSubjectFailed"],
             <<Called("parse_subject_from_certificate", Some(cert), FALSE, NoVal)>>, {})

\* RemProvState::get_rkpd_attestation_key_and_certs
get_rkpd_attestation_key_and_certs(rem_prov_state) ==
    LET fn == "get_rkpd_attestation_key_and_certs"
    IN  CASE rem_prov_state.kind = "err" ->
                Err([kind |-> "Rc", code |-> "OUT_OF_KEYS"],
                    <<Called(fn, None, FALSE, NoVal)>>, {})
          [] rem_prov_state.kind = "none" ->
                Ok(None, <<Called(fn, None, TRUE, None)>>, {}, {})
          [] OTHER ->
                LET got == Some(rem_prov_state.material)
                IN  Ok(got, <<Called(fn, None, TRUE, got)>>, {}, {})

\* RemProvState::get_remotely_provisioned_attestation_key_and_certs: an
\* assigned key comes with the lock on its record.
get_remotely_provisioned_attestation_key_and_certs(rem_prov_state) ==
    LET fn == "get_remotely_provisioned_attestation_key_and_certs"
    IN  CASE rem_prov_state.kind = "err" ->
                Err([kind |-> "Rc", code |-> "OUT_OF_KEYS"],
                    <<Called(fn, None, FALSE, NoVal)>>, {})
          [] rem_prov_state.kind = "none" ->
                Ok(None, <<Called(fn, None, TRUE, None)>>, {}, {})
          [] OTHER ->
                LET got == Some([key_id_guard |-> rem_prov_state.key_id,
                                 attestation_key |-> rem_prov_state.material.attestation_key,
                                 attestation_certs |-> rem_prov_state.material.attestation_certs])
                IN  Ok(got, <<Called(fn, None, TRUE, got)>>,
                       {rem_prov_state.key_id}, {rem_prov_state.key_id})

----------------------------------------------------------------------------
(* attestation_key_utils.rs *)

\* mutant: unwrap_or(true), an unreadable property selects RKPD
use_rkpd_unreadable_is_true ==
    LET default_value == FALSE
        r == read_bool(enable_rkpd, default_value)
    IN  IF r.ok THEN r.val ELSE TRUE

use_rkpd ==
    LET default_value == FALSE
        r == read_bool(enable_rkpd, default_value)
    IN  IF r.ok THEN r.val ELSE default_value

\* mutant: the guard is leaked (mem::forget) instead of dropped
DropGuards_leak(e, log, acquired) ==
    [e EXCEPT !.log = log, !.acquired = acquired, !.locked = acquired]

\* An error return while the function's locals own record locks: the locals
\* are dropped, the KeyIdGuard with them.
DropGuards(e, log, acquired) ==
    [e EXCEPT !.log = log, !.acquired = acquired, !.locked = {}]

\* mutant: every load failure is reported as KEY_NOT_FOUND
load_entry_not_found(key, caller_uid, db) ==
    LET r == load_key_entry(db, key, caller_uid)
    IN  Context(IF r.ok THEN r
                ELSE [r EXCEPT !.err = [kind |-> "Rc", code |-> "KEY_NOT_FOUND"]],
                "Failed to load key.")

\* db.load_key_entry(key, KeyType::Client, KeyEntryLoadBits::BOTH, caller_uid,
\*                   |k, av| check_key_permission(KeyPerm::Use, k, &av))
\*   .context(..)?
load_entry(key, caller_uid, db) ==
    Context(load_key_entry(db, key, caller_uid), "Failed to load key.")

\* mutant: unwrap_or_default() in place of ok_or(..)?, a missing blob or
\* certificate becomes an empty one
take_blob_and_cert_default(loaded) ==
    LET key_id_guard == loaded.val.key_id_guard
        key_entry == loaded.val.key_entry
        blob_info == take_key_blob_info(key_entry)
        cert == take_cert(key_entry)
    IN  Ok([key_id_guard |-> key_id_guard,
            blob |-> IF blob_info.is_some THEN blob_info.v[1] ELSE <<>>,
            cert |-> IF cert.is_some THEN cert.v ELSE <<48, 0>>,
            blob_metadata |-> IF blob_info.is_some THEN blob_info.v[2] ELSE "plain"],
           loaded.log
             \o <<Called("take_key_blob_info", None, blob_info.is_some, blob_info),
                  Called("take_cert", None, cert.is_some, cert)>>,
           loaded.acquired, {key_id_guard})

\* take_key_blob_info().ok_or(..)?, take_cert().ok_or(..)? and the Ok tuple
take_blob_and_cert(loaded) ==
    LET key_id_guard == loaded.val.key_id_guard
        key_entry == loaded.val.key_entry
        blob_info == take_key_blob_info(key_entry)
        log1 == loaded.log
                \o <<Called("take_key_blob_info", None, blob_info.is_some, blob_info)>>
    IN  IF ~blob_info.is_some
        THEN Context(
               DropGuards(Err([kind |-> "Rc", code |-> "INVALID_ARGUMENT"], <<>>, {}),
                          log1, loaded.acquired),
               "Successfully loaded key entry, but KM blob was missing")
        ELSE
          LET cert == take_cert(key_entry)
              log2 == log1 \o <<Called("take_cert", None, cert.is_some, cert)>>
          IN  IF ~cert.is_some
              THEN Context(
                     DropGuards(Err([kind |-> "Rc", code |-> "INVALID_ARGUMENT"], <<>>, {}),
                                log2, loaded.acquired),
                     "Successfully loaded key entry, but cert was missing")
              ELSE Ok([key_id_guard |-> key_id_guard,
                       blob |-> blob_info.v[1],
                       cert |-> cert.v,
                       blob_metadata |-> blob_info.v[2]],
                      log2, loaded.acquired, {key_id_guard})

\* mutant: no Domain::BLOB arm
load_attest_key_blob_and_cert_any_domain(key, caller_uid, db) ==
    LET loaded == load_entry(key, caller_uid, db)
    IN  IF ~loaded.ok THEN loaded ELSE take_blob_and_cert(loaded)

load_attest_key_blob_and_cert(key, caller_uid, db) ==
    IF key.domain = "BLOB"
    THEN Context(Err([kind |-> "Km", code |-> "INVALID_ARGUMENT"], <<>>, {}),
                 "Domain::BLOB attestation keys not supported")
    ELSE
      LET loaded == load_entry(key, caller_uid, db)
      IN  IF ~loaded.ok THEN loaded ELSE take_blob_and_cert(loaded)

\* mutant: the raw certificate is handed out as the issuer subject
parse_issuer_subject_raw(loaded) ==
    LET parsed == Context(parse_subject_from_certificate(loaded.val.cert),
                          "Failed to parse subject from certificate")
        log == loaded.log \o parsed.log
    IN  IF ~parsed.ok
        THEN DropGuards(parsed, log, loaded.acquired)
        ELSE Ok([variant |-> "UserGenerated",
                 key_id_guard |-> loaded.val.key_id_guard,
                 blob |-> loaded.val.blob,
                 issuer_subject |-> loaded.val.cert,
                 blob_metadata |-> loaded.val.blob_metadata],
                log, loaded.acquired, {loaded.val.key_id_guard})

\* parse_subject_from_certificate(&cert).context(..)? and the Ok value
parse_issuer_subject(loaded) ==
    LET parsed == Context(parse_subject_from_certificate(loaded.val.cert),
                          "Failed to parse subject from certificate")
        log == loaded.log \o parsed.log
    IN  IF ~parsed.ok
        THEN DropGuards(parsed, log, loaded.acquired)
        ELSE Ok([variant |-> "UserGenerated",
                 key_id_guard |-> loaded.val.key_id_guard,
                 blob |-> loaded.val.blob,
                 issuer_subject |-> parsed.val,
                 blob_metadata |-> loaded.val.blob_metadata],
                log, loaded.acquired, {loaded.val.key_id_guard})

get_user_generated_attestation_key(key, caller_uid, db) ==
    LET loaded == Context(load_attest_key_blob_and_cert(key, caller_uid, db),
                          "Failed to load blob and cert")
    IN  IF ~loaded.ok THEN loaded ELSE parse_issuer_subject(loaded)

RkpdProvisioned(t) ==
    [variant |-> "RkpdProvisioned",
     attestation_key |-> t.attestation_key,
     attestation_certs |-> t.attestation_certs]

RemoteProvisioned(t) ==
    [variant |-> "RemoteProvisioned",
     key_id_guard |-> t.key_id_guard,
     attestation_key |-> t.attestation_key,
     attestation_certs |-> t.attestation_certs]

\* mutant: the wrong tag is looked for
challenge_present_wrong_tag(params) ==
    \E i \in 1..Len(params) : params[i] = "ALGORITHM"

challenge_present(params) ==
    \E i \in 1..Len(params) : params[i] = "ATTESTATION_CHALLENGE"

\* mutant: the wrong tag is looked for
is_device_unique_attestation_wrong_tag(params) ==
    \E i \in 1..Len(params) : params[i] = "ALGORITHM"

is_device_unique_attestation(params) ==
    \E i \in 1..Len(params) : params[i] = "DEVICE_UNIQUE_ATTESTATION"

\* the arm taken when use_rkpd() is true
rkpd_provisioned(rem_prov_state) ==
    LET r == Context(get_rkpd_attestation_key_and_certs(rem_prov_state),
                     "Trying to get attestation key from RKPD.")
    IN  IF ~r.ok THEN r
        ELSE [r EXCEPT !.val = IF @.is_some THEN Some(RkpdProvisioned(@.v)) ELSE None]

\* mutant: a failure of the legacy collaborator is swallowed into "no key"
remote_provisioned_swallow(rem_prov_state) ==
    LET r == get_remotely_provisioned_attestation_key_and_certs(rem_prov_state)
    IN  IF ~r.ok THEN Ok(None, r.log, r.acquired, {})
        ELSE [r EXCEPT !.val = IF @.is_some THEN Some(RemoteProvisioned(@.v)) ELSE None]

\* the arm taken when use_rkpd() is false
remote_provisioned(rem_prov_state) ==
    LET r == Context(get_remotely_provisioned_attestation_key_and_certs(rem_prov_state),
                     "Trying to get remotely provisioned attestation key.")
    IN  IF ~r.ok THEN r
        ELSE [r EXCEPT !.val = IF @.is_some THEN Some(RemoteProvisioned(@.v)) ELSE None]

\* the arm `Some(attest_key) => ..`
user_generated(attest_key, caller_uid, db) ==
    LET r == Context(get_user_generated_attestation_key(attest_key, caller_uid, db),
                     "Trying to load attest key")
    IN  IF ~r.ok THEN r ELSE [r EXCEPT !.val = Some(@)]

ReadToggle(r) ==
    [r EXCEPT !.log = <<Called("read_bool", None, read_bool(enable_rkpd, FALSE).ok, NoVal)>> \o @]

\* mutant: the remote provisioning arm does not look at the descriptor
get_attest_key_info_any_descriptor(caller_uid, attest_key_descriptor, params, rem_prov_state, db) ==
    IF challenge_present(params) /\ ~is_device_unique_attestation(params)
    THEN IF use_rkpd
         THEN ReadToggle(rkpd_provisioned(rem_prov_state))
         ELSE ReadToggle(remote_provisioned(rem_prov_state))
    ELSE IF ~attest_key_descriptor.is_some
    THEN Ok(None, <<>>, {}, {})
    ELSE user_generated(attest_key_descriptor.v, caller_uid, db)

get_attest_key_info(caller_uid, attest_key_descriptor, params, rem_prov_state, db) ==
    IF ~attest_key_descriptor.is_some
         /\ challenge_present(params) /\ ~is_device_unique_attestation(params)
    THEN IF use_rkpd
         THEN ReadToggle(rkpd_provisioned(rem_prov_state))
         ELSE ReadToggle(remote_provisioned(rem_prov_state))
    ELSE IF ~attest_key_descriptor.is_some
    THEN Ok(None, <<>>, {}, {})
    ELSE user_generated(attest_key_descriptor.v, caller_uid, db)

----------------------------------------------------------------------------
(* The state machine *)

NoCall == [pending |-> FALSE]

NoResult == [returned |-> FALSE]

Init ==
    /\ enable_rkpd \in PropertyValues
    /\ locked_keys = {}
    /\ call = NoCall
    /\ last = NoResult
    /\ prev_rkp = {}

\* device_config or a shell writes the system property
SetProperty ==
    /\ \E v \in PropertyValues \ {enable_rkpd} : enable_rkpd' = v
    /\ UNCHANGED <<locked_keys, call, last, prev_rkp>>

\* the key-creation path calls get_attest_key_info
Invoke ==
    /\ ~call.pending
    /\ ~last.returned
    /\ \E uid \in Uids, attest \in OptionalKeyDescriptor, params \in ParamSeqs :
          call' = [pending |-> TRUE, caller_uid |-> uid,
                   attest_key_descriptor |-> attest, params |-> params]
    /\ UNCHANGED <<enable_rkpd, locked_keys, last, prev_rkp>>

RemoteCollaborators ==
    {"get_rkpd_attestation_key_and_certs",
     "get_remotely_provisioned_attestation_key_and_certs"}

Invoked(log, name) == \E i \in 1..Len(log) : log[i].fn = name

RemoteInvoked(log) == {n \in RemoteCollaborators : Invoked(log, n)}

\* one collaborator answers freely at a time, the other one as in Quiet
Quiet == [db |-> [row |-> None, granted |-> TRUE], rem_prov_state |-> [kind |-> "none"]]

Collaborators ==
    {[Quiet EXCEPT !.db = d] : d \in KeystoreDB}
    \cup {[Quiet EXCEPT !.rem_prov_state = r] : r \in RemProvState}

\* get_attest_key_info runs to its return.  A lock another guard holds makes
\* the collaborator wait, so the call returns only with locks that were free.
GetAttestKeyInfo ==
    /\ call.pending
    /\ \E c \in Collaborators :
          LET r == get_attest_key_info(call.caller_uid, call.attest_key_descriptor,
                                       call.params, c.rem_prov_state, c.db)
          IN  /\ r.acquired \cap locked_keys = {}
              /\ locked_keys' = locked_keys \cup r.locked
              /\ last' = [returned |-> TRUE,
                          caller_uid |-> call.caller_uid,
                          attest_key_descriptor |-> call.attest_key_descriptor,
                          params |-> call.params,
                          ok |-> r.ok, val |-> r.val, err |-> r.err, ctx |-> r.ctx,
                          log |-> r.log, acquired |-> r.acquired, locked |-> r.locked]
    /\ call' = NoCall
    /\ UNCHANGED <<enable_rkpd, prev_rkp>>

\* the caller takes the result out of the call; the guards in it stay alive
TakeResult ==
    /\ last.returned
    /\ last' = NoResult
    /\ prev_rkp' = IF RemoteInvoked(last.log) = {} THEN prev_rkp ELSE RemoteInvoked(last.log)
    /\ UNCHANGED <<enable_rkpd, locked_keys, call>>

\* the caller is done signing and drops a KeyIdGuard
DropKeyIdGuard ==
    /\ \E k \in locked_keys : locked_keys' = locked_keys \ {k}
    /\ UNCHANGED <<enable_rkpd, call, last, prev_rkp>>

Next ==
    \/ SetProperty
    \/ Invoke
    \/ GetAttestKeyInfo
    \/ TakeResult
    \/ DropKeyIdGuard

Spec == Init /\ [][Next]_vars

----------------------------------------------------------------------------
(* Properties *)

HasTag(params, tag) == tag \in {params[i] : i \in DOMAIN params}

Calls(log, fn) == {log[i] : i \in {j \in DOMAIN log : log[j].fn = fn}}

IsVariant(r, variant) == r.ok /\ r.val.is_some /\ r.val.v.variant = variant

\* C1: a call with an explicit attestation key descriptor invokes neither
\* remote provisioning collaborator and does not read the toggle, whatever the
\* challenge and device-unique parameters are; its result is an error or a
\* UserGenerated key.
C1_ExplicitKeyNeverRemote ==
    (last.returned /\ last.attest_key_descriptor.is_some)
        => /\ RemoteInvoked(last.log) = {}
           /\ ~Invoked(last.log, "read_bool")
           /\ last.ok => IsVariant(last, "UserGenerated")

C1_Witness ==
    /\ last.returned
    /\ last.attest_key_descriptor.is_some
    /\ HasTag(last.params, "ATTESTATION_CHALLENGE")
    /\ ~HasTag(last.params, "DEVICE_UNIQUE_ATTESTATION")
    /\ IsVariant(last, "UserGenerated")

\* C2: with no explicit key, a challenge and DEVICE_UNIQUE_ATTESTATION, no
\* remote provisioning collaborator is invoked and the result is neither
\* RemoteProvisioned nor RkpdProvisioned.
C2_DeviceUniqueNeverRemote ==
    (/\ last.returned
     /\ ~last.attest_key_descriptor.is_some
     /\ HasTag(last.params, "ATTESTATION_CHALLENGE")
     /\ HasTag(last.params, "DEVICE_UNIQUE_ATTESTATION"))
        => /\ RemoteInvoked(last.log) = {}
           /\ ~IsVariant(last, "RemoteProvisioned")
           /\ ~IsVariant(last, "RkpdProvisioned")
           /\ last.ok => ~last.val.is_some

C2_Witness ==
    /\ last.returned
    /\ ~last.attest_key_descriptor.is_some
    /\ HasTag(last.params, "ATTESTATION_CHALLENGE")
    /\ HasTag(last.params, "DEVICE_UNIQUE_ATTESTATION")
    /\ last.ok
    /\ ~last.val.is_some

\* C3: an explicit attestation key of domain BLOB gives an INVALID_ARGUMENT
\* error for every caller; storage and the permission check are not invoked and
\* no record lock is acquired.
C3_BlobDomainInvalidArgument ==
    (/\ last.returned
     /\ last.attest_key_descriptor.is_some
     /\ last.attest_key_descriptor.v.domain = "BLOB")
        => /\ ~last.ok
           /\ last.err.code = "INVALID_ARGUMENT"
           /\ ~Invoked(last.log, "load_key_entry")
           /\ ~Invoked(last.log, "check_key_permission")
           /\ last.acquired = {}

C3_Witness ==
    /\ last.returned
    /\ last.attest_key_descriptor.is_some
    /\ last.attest_key_descriptor.v.domain = "BLOB"
    /\ last.caller_uid = 10001
    /\ ~last.ok

\* C4: with no explicit key and no ATTESTATION_CHALLENGE the result is
\* Ok(None) and no collaborator is invoked, whatever DEVICE_UNIQUE_ATTESTATION
\* and the toggle are.
C4_NoChallengeOkNone ==
    (/\ last.returned
     /\ ~last.attest_key_descriptor.is_some
     /\ ~HasTag(last.params, "ATTESTATION_CHALLENGE"))
        => /\ last.ok
           /\ last.val = None
           /\ last.log = <<>>
           /\ last.acquired = {}

C4_Witness ==
    /\ last.returned
    /\ ~last.attest_key_descriptor.is_some
    /\ ~HasTag(last.params, "ATTESTATION_CHALLENGE")
    /\ HasTag(last.params, "DEVICE_UNIQUE_ATTESTATION")
    /\ last.ok
    /\ last.val = None

OnRemotePath(c) ==
    /\ ~c.attest_key_descriptor.is_some
    /\ HasTag(c.params, "ATTESTATION_CHALLENGE")
    /\ ~HasTag(c.params, "DEVICE_UNIQUE_ATTESTATION")

\* C5: every call on the remote provisioning path invokes exactly one remote
\* collaborator, chosen by the value the toggle has at that call: RKPD when it
\* reads true, the legacy one when it reads false, is not set or is unreadable.
C5_ToggleReadFresh ==
    [][(call.pending /\ last'.returned /\ OnRemotePath(call))
         => /\ RemoteInvoked(last'.log) =
                  IF enable_rkpd = "true"
                  THEN {"get_rkpd_attestation_key_and_certs"}
                  ELSE {"get_remotely_provisioned_attestation_key_and_certs"}
            /\ Cardinality({i \in DOMAIN last'.log :
                                last'.log[i].fn \in RemoteCollaborators}) = 1]_vars

C5_Witness ==
    /\ last.returned
    /\ OnRemotePath(last)
    /\ prev_rkp = {"get_remotely_provisioned_attestation_key_and_certs"}
    /\ RemoteInvoked(last.log) = {"get_rkpd_attestation_key_and_certs"}

PermissionCheckFailed(log) ==
    \E c \in Calls(log, "check_key_permission") : ~c.ok

\* C6: when the permission check of load_key_entry fails, the call returns a
\* PERMISSION_DENIED error and the set of locked records is the one before the
\* call.
C6_PermissionDeniedNoLock ==
    [][(call.pending /\ last'.returned /\ PermissionCheckFailed(last'.log))
         => /\ ~last'.ok
            /\ last'.err = [kind |-> "Rc", code |-> "PERMISSION_DENIED"]
            /\ last'.acquired = {}
            /\ locked_keys' = locked_keys]_vars

C6_Witness ==
    /\ last.returned
    /\ last.attest_key_descriptor.is_some
    /\ last.attest_key_descriptor.v.domain # "BLOB"
    /\ PermissionCheckFailed(last.log)
    /\ ~last.ok
    /\ last.err.code = "PERMISSION_DENIED"

IncompleteEntryLoaded(log) ==
    \E c \in Calls(log, "load_key_entry") :
        c.ok /\ (~c.ret.key_entry.km_blob.is_some \/ ~c.ret.key_entry.cert.is_some)

\* C7: when load_key_entry succeeds with a record that lacks the key blob or
\* the certificate, the call fails with INVALID_ARGUMENT.
C7_IncompleteEntryInvalidArgument ==
    (last.returned /\ IncompleteEntryLoaded(last.log))
        => /\ ~last.ok
           /\ last.err.code = "INVALID_ARGUMENT"
           /\ ~IsVariant(last, "UserGenerated")

C7_Witness ==
    /\ last.returned
    /\ \E c \in Calls(last.log, "load_key_entry") :
          c.ok /\ ~c.ret.key_entry.km_blob.is_some /\ c.ret.key_entry.cert.is_some
    /\ ~last.ok
    /\ last.err.code = "INVALID_ARGUMENT"

\* C8: when the load succeeds with lock L, blob H, metadata M and certificate
\* C, the parser is given C, and when it answers S the result is
\* Some(UserGenerated) with lock L, blob H, metadata M and issuer subject S,
\* which is not the raw certificate.
C8_UserGeneratedRoundTrip ==
    last.returned =>
      \A c \in Calls(last.log, "load_key_entry") :
        (c.ok /\ c.ret.key_entry.km_blob.is_some /\ c.ret.key_entry.cert.is_some)
          => /\ \E p \in Calls(last.log, "parse_subject_from_certificate") :
                    p.arg = c.ret.key_entry.cert
             /\ \A p \in Calls(last.log, "parse_subject_from_certificate") :
                    p.ok =>
                      /\ last.ok
                      /\ last.val =
                           Some([variant |-> "UserGenerated",
                                 key_id_guard |-> c.ret.key_id_guard,
                                 blob |-> c.ret.key_entry.km_blob.v[1],
                                 blob_metadata |-> c.ret.key_entry.km_blob.v[2],
                                 issuer_subject |-> p.ret.v])
                      /\ last.val.v.issuer_subject # c.ret.key_entry.cert.v
                      /\ last.locked = {c.ret.key_id_guard}

C8_Witness ==
    /\ last.returned
    /\ IsVariant(last, "UserGenerated")
    /\ last.val.v.blob = <<34, 35>>
    /\ last.val.v.blob_metadata = "super_encrypted"
    /\ last.val.v.issuer_subject = <<8, 9>>

\* C9: on the remote provisioning path the collaborator's answer is the
\* result: a key from RKPD gives RkpdProvisioned with that key and chain and no
\* lock, a key from the legacy collaborator gives RemoteProvisioned with that
\* lock, key and chain, no key gives Ok(None), an error gives an error; and a
\* UserGenerated result needs an explicit attestation key.
C9_RemoteResultPropagated ==
    last.returned =>
      /\ \A c \in Calls(last.log, "get_rkpd_attestation_key_and_certs") :
            /\ ~c.ok => ~last.ok
            /\ (c.ok /\ ~c.ret.is_some) => (last.ok /\ last.val = None)
            /\ (c.ok /\ c.ret.is_some) =>
                  /\ last.ok
                  /\ last.val =
                       Some([variant |-> "RkpdProvisioned",
                             attestation_key |-> c.ret.v.attestation_key,
                             attestation_certs |-> c.ret.v.attestation_certs])
                  /\ last.locked = {}
      /\ \A c \in Calls(last.log, "get_remotely_provisioned_attestation_key_and_certs") :
            /\ ~c.ok => ~last.ok
            /\ (c.ok /\ ~c.ret.is_some) => (last.ok /\ last.val = None)
            /\ (c.ok /\ c.ret.is_some) =>
                  /\ last.ok
                  /\ last.val =
                       Some([variant |-> "RemoteProvisioned",
                             key_id_guard |-> c.ret.v.key_id_guard,
                             attestation_key |-> c.ret.v.attestation_key,
                             attestation_certs |-> c.ret.v.attestation_certs])
                  /\ last.locked = {c.ret.v.key_id_guard}
      /\ IsVariant(last, "UserGenerated") => last.attest_key_descriptor.is_some
      /\ OnRemotePath(last) => RemoteInvoked(last.log) # {}

C9_Witness ==
    /\ last.returned
    /\ IsVariant(last, "RkpdProvisioned")
    /\ last.val.v.attestation_key = "ak2"

\* C10: a call that returns an error leaves the set of locked records as it
\* was, also when it had acquired a lock; a call locks a record only by
\* returning a RemoteProvisioned or UserGenerated result, which carries the
\* guard; a subject parse failure is an error.
C10_ErrorReleasesLock ==
    [][(call.pending /\ last'.returned)
         => /\ ~last'.ok => locked_keys' = locked_keys
            /\ locked_keys' # locked_keys =>
                  /\ IsVariant(last', "RemoteProvisioned") \/ IsVariant(last', "UserGenerated")
                  /\ locked_keys' = locked_keys \cup {last'.val.v.key_id_guard}
            /\ (\E p \in Calls(last'.log, "parse_subject_from_certificate") : ~p.ok)
                  => ~last'.ok]_vars

C10_Witness ==
    /\ last.returned
    /\ ~last.ok
    /\ last.acquired # {}
    /\ locked_keys = {}
    /\ \E p \in Calls(last.log, "parse_subject_from_certificate") : ~p.ok

====
